---- MODULE Spec2Model ----
(***************************************************************************)
(* hook-exporter: the metric data model (router.go: metric, metricFile),   *)
(* its JSON encoding as encoding/json produces and reads it, the ingest    *)
(* handler (metricHandler), the read handler (indexHandler, readMetrics,   *)
(* readMetricFile, listMetricFiles) and the process-wide configuration c   *)
(* with its background reload (config.go).                                 *)
(*                                                                         *)
(* A Go string is modelled as a sequence of characters, each character a   *)
(* one-character TLA+ string; BadByte stands for one byte that is not      *)
(* valid UTF-8 and Replacement for the character U+FFFD.                   *)
(***************************************************************************)
EXTENDS Integers, Sequences, FiniteSets, TLC

(***************************************************************************)
(* Characters and their byte values.                                       *)
(***************************************************************************)
BadByte == "<FF>"

Replacement == "<U+FFFD>"

\* The character with code 96.
Backquote == "<60>"

\* The printable ASCII characters, in the order of their codes 32 .. 126.
Ascii ==
  << " ", "!", "\"", "#", "$", "%", "&", "'", "(", ")", "*", "+", ",", "-", ".", "/",
     "0", "1", "2", "3", "4", "5", "6", "7", "8", "9", ":", ";", "<", "=", ">", "?",
     "@", "A", "B", "C", "D", "E", "F", "G", "H", "I", "J", "K", "L", "M", "N", "O",
     "P", "Q", "R", "S", "T", "U", "V", "W", "X", "Y", "Z", "[", "\\", "]", "^", "_",
     Backquote, "a", "b", "c", "d", "e", "f", "g", "h", "i", "j", "k", "l", "m", "n", "o",
     "p", "q", "r", "s", "t", "u", "v", "w", "x", "y", "z", "{", "|", "}", "~" >>

FirstPrintable == 32

Chars == {Ascii[i] : i \in 1..Len(Ascii)} \cup {"\n", "\t", "\r", BadByte, Replacement}

\* The value of the (first) byte of a character.
Code ==
  [ch \in Chars |->
     CASE ch = "\n" -> 10
       [] ch = "\t" -> 9
       [] ch = "\r" -> 13
       [] ch = BadByte -> 255
       [] ch = Replacement -> 239
       [] OTHER -> (FirstPrintable - 1) + (CHOOSE i \in 1..Len(Ascii) : Ascii[i] = ch)]

IsDigit(ch) == Code[ch] >= 48 /\ Code[ch] <= 57

IsUpper(ch) == Code[ch] >= 65 /\ Code[ch] <= 90

IsLower(ch) == Code[ch] >= 97 /\ Code[ch] <= 122

\* \w of Go's regexp: [0-9A-Za-z_], ASCII only.
IsWord(ch) == IsDigit(ch) \/ IsUpper(ch) \/ IsLower(ch) \/ Code[ch] = 95

\* The class [\w\-/].
IsTextChar(ch) == IsWord(ch) \/ Code[ch] = 45 \/ Code[ch] = 47

\* textRegex = ^[\w\-/]+$ ; in Go, $ without the m flag is the end of the text.
MatchText(s) == Len(s) >= 1 /\ \A i \in 1..Len(s) : IsTextChar(s[i])

\* MatchValue for the pattern ^\d+(\.\d+)?$ of a decimal number.
MatchDecimal(s) ==
  \E n \in 1..Len(s) :
     /\ \A i \in 1..n : IsDigit(s[i])
     /\ \/ n = Len(s)
        \/ /\ Len(s) >= n + 2
           /\ s[n + 1] = "."
           /\ \A i \in (n + 2)..Len(s) : IsDigit(s[i])

\* valueRegex = ^\d+(.\+)?$ ; the dot is any character but a newline.
MatchValue(s) ==
  \E n \in 1..Len(s) :
     /\ \A i \in 1..n : IsDigit(s[i])
     /\ \/ n = Len(s)
        \/ /\ Len(s) = n + 2
           /\ s[n + 1] # "\n"
           /\ s[n + 2] = "+"

(***************************************************************************)
(* Go values.  A map and a slice are nil or hold elements: encoding/json   *)
(* writes a nil map or slice as null, an empty one as {} or [].            *)
(***************************************************************************)
NilMap == [isNil |-> TRUE, m |-> << >>]

MakeMap(f) == [isNil |-> FALSE, m |-> f]

NilSlice == [isNil |-> TRUE, s |-> << >>]

MakeSlice(q) == [isNil |-> FALSE, s |-> q]

\* append(a, b...): nil stays nil when nothing is appended.
Append_(a, b) == [isNil |-> a.isNil /\ Len(b.s) = 0, s |-> a.s \o b.s]

\* len(m) of a map.
MapLen(t) == Cardinality(DOMAIN t.m)

\* metric{} and metricFile{}, the zero values.
ZeroMetric == [Name |-> << >>, Type |-> << >>, Tags |-> NilMap, Value |-> << >>]

ZeroFile == [FileName |-> << >>, Metrics |-> NilSlice]

(***************************************************************************)
(* metric.Validate and metricFile.Validate.                                *)
(***************************************************************************)
MetricValidate(m) ==
  IF ~MatchText(m.Name) THEN FALSE
  ELSE IF ~MatchText(m.Type) THEN FALSE
  ELSE IF ~MatchValue(m.Value) THEN FALSE
  ELSE \A k \in DOMAIN m.Tags.m :
          IF ~MatchText(k) THEN FALSE
          ELSE IF ~MatchText(m.Tags.m[k]) THEN FALSE
          ELSE TRUE

\* FileValidate, holding the file name to the text pattern.
FileValidateName(mf) ==
  IF ~MatchText(mf.FileName) THEN FALSE
  ELSE \A i \in 1..Len(mf.Metrics.s) : MetricValidate(mf.Metrics.s[i])

FileValidate(mf) ==
  IF mf.FileName = << >> THEN FALSE
  ELSE \A i \in 1..Len(mf.Metrics.s) : MetricValidate(mf.Metrics.s[i])

(***************************************************************************)
(* metric.TagString, metric.String, metricFile.String.  The range over a   *)
(* Go map visits the keys in an unspecified order, so a rendering is one   *)
(* of a set of texts.                                                      *)
(***************************************************************************)
RECURSIVE JoinWith(_, _)
\* strings.Join(parts, sep)
JoinWith(parts, sep) ==
  IF Len(parts) = 0 THEN << >>
  ELSE IF Len(parts) = 1 THEN parts[1]
  ELSE parts[1] \o sep \o JoinWith(Tail(parts), sep)

\* The orders in which a range over a map with key set K may visit the keys.
KeyOrders(K) ==
  {o \in [1..Cardinality(K) -> K] : \A i, j \in 1..Cardinality(K) : o[i] = o[j] => i = j}

\* fmt.Sprintf("%s=\"%s\"", k, v)
TagEntry(k, v) == k \o <<"=", "\"">> \o v \o <<"\"">>

\* TagStrings, writing the braces for a metric without tags too.
TagStringsBraced(m) ==
  {<<"{">> \o JoinWith([i \in 1..Len(o) |-> TagEntry(o[i], m.Tags.m[o[i]])], <<",">>)
         \o <<"}">> : o \in KeyOrders(DOMAIN m.Tags.m)}

TagStrings(m) ==
  IF MapLen(m.Tags) = 0 THEN {<< >>}
  ELSE {<<"{">> \o JoinWith([i \in 1..Len(o) |-> TagEntry(o[i], m.Tags.m[o[i]])], <<",">>)
              \o <<"}">> : o \in KeyOrders(DOMAIN m.Tags.m)}

\* fmt.Sprintf("# TYPE %s %s\n%s%s %s\n\n", Name, Type, Name, TagString(), Value)
MetricStrings(m) ==
  {<<"#", " ", "T", "Y", "P", "E", " ">> \o m.Name \o <<" ">> \o m.Type \o <<"\n">>
      \o m.Name \o ts \o <<" ">> \o m.Value \o <<"\n", "\n">> : ts \in TagStrings(m)}

RECURSIVE SeqStrings(_)
\* The texts the loop of metricFile.String can build over the metrics q.
SeqStrings(q) ==
  IF Len(q) = 0 THEN {<< >>}
  ELSE {x \o y : x \in MetricStrings(q[1]), y \in SeqStrings(Tail(q))}

FileStrings(mf) == SeqStrings(mf.Metrics.s)

(***************************************************************************)
(* json.Marshal of a metricFile (router.go:126): the fields in struct      *)
(* order under their json names, a map's keys sorted, strings quoted with  *)
(* the escapes of encoding/json (HTML escaping on).                        *)
(***************************************************************************)
\* EscapeChar, escaping nothing.
EscapeNothing(ch) == <<ch>>

\* The escape sequence encoding/json writes for a character, or the character itself.
EscapeChar(ch) ==
  CASE ch = "\"" -> <<"\\", "\"">>
    [] ch = "\\" -> <<"\\", "\\">>
    [] ch = "\n" -> <<"\\", "n">>
    [] ch = "\r" -> <<"\\", "r">>
    [] ch = "\t" -> <<"\\", "t">>
    [] ch = "<" -> <<"\\", "u", "0", "0", "3", "c">>
    [] ch = ">" -> <<"\\", "u", "0", "0", "3", "e">>
    [] ch = "&" -> <<"\\", "u", "0", "0", "2", "6">>
    [] ch = BadByte -> <<"\\", "u", "f", "f", "f", "d">>
    [] OTHER -> <<ch>>

RECURSIVE EscapeAll(_)
EscapeAll(s) == IF Len(s) = 0 THEN << >> ELSE EscapeChar(s[1]) \o EscapeAll(Tail(s))

\* A Go string as a JSON string.
EncodeString(s) == <<"\"">> \o EscapeAll(s) \o <<"\"">>

RECURSIVE StrLess(_, _)
\* a < b for Go strings: byte order.
StrLess(a, b) ==
  IF Len(b) = 0 THEN FALSE
  ELSE IF Len(a) = 0 THEN TRUE
  ELSE IF Code[a[1]] # Code[b[1]] THEN Code[a[1]] < Code[b[1]]
  ELSE StrLess(Tail(a), Tail(b))

\* The keys K in increasing order, as encoding/json sorts a map's keys.
SortedKeys(K) ==
  CHOOSE o \in KeyOrders(K) : \A i \in 1..(Len(o) - 1) : StrLess(o[i], o[i + 1])

EncodeTags(t) ==
  IF t.isNil THEN <<"n", "u", "l", "l">>
  ELSE LET o == SortedKeys(DOMAIN t.m)
       IN  <<"{">>
             \o JoinWith([i \in 1..Len(o) |->
                            EncodeString(o[i]) \o <<":">> \o EncodeString(t.m[o[i]])],
                         <<",">>)
             \o <<"}">>

EncodeMetric(m) ==
  <<"{">> \o EncodeString(<<"n", "a", "m", "e">>) \o <<":">> \o EncodeString(m.Name)
    \o <<",">> \o EncodeString(<<"t", "y", "p", "e">>) \o <<":">> \o EncodeString(m.Type)
    \o <<",">> \o EncodeString(<<"t", "a", "g", "s">>) \o <<":">> \o EncodeTags(m.Tags)
    \o <<",">> \o EncodeString(<<"v", "a", "l", "u", "e">>) \o <<":">> \o EncodeString(m.Value)
    \o <<"}">>

EncodeMetrics(ms) ==
  IF ms.isNil THEN <<"n", "u", "l", "l">>
  ELSE <<"[">> \o JoinWith([i \in 1..Len(ms.s) |-> EncodeMetric(ms.s[i])], <<",">>) \o <<"]">>

\* json.Marshal(mf); it cannot fail on a metricFile.
Marshal(mf) ==
  <<"{">> \o EncodeString(<<"n", "a", "m", "e">>) \o <<":">> \o EncodeString(mf.FileName)
    \o <<",">> \o EncodeString(<<"m", "e", "t", "r", "i", "c", "s">>) \o <<":">>
    \o EncodeMetrics(mf.Metrics)
    \o <<"}">>

(***************************************************************************)
(* json.Unmarshal into a metricFile (router.go:117, 204): the text is      *)
(* first read as one JSON value (a syntax error otherwise), then stored    *)
(* into the struct as encoding/json does: keys matched to the json names   *)
(* without regard to case, unknown keys skipped, a later duplicate key     *)
(* decoded into the value the earlier one left, null a no-op for a string  *)
(* or struct and nil for a map or slice, any other kind of value a type    *)
(* error.  The characters a \u escape may name are those of Chars; \b, \f  *)
(* and escapes of other characters are outside the alphabet and are read   *)
(* as errors, and no input of the model holds one.                         *)
(***************************************************************************)
JNull == [t |-> "null", s |-> << >>, a |-> << >>]

JAtom(kind) == [t |-> kind, s |-> << >>, a |-> << >>]

JStr(str) == [t |-> "str", s |-> str, a |-> << >>]

JArr(elems) == [t |-> "arr", s |-> << >>, a |-> elems]

JObj(members) == [t |-> "obj", s |-> << >>, a |-> members]

ParseFail == [ok |-> FALSE, v |-> JNull, i |-> 0]

ParseOk(val, after) == [ok |-> TRUE, v |-> val, i |-> after]

\* Whether the text s has the character ch at position i.
Has(s, i, ch) == i >= 1 /\ i <= Len(s) /\ s[i] = ch

IsSpace(ch) == ch \in {" ", "\n", "\t", "\r"}

RECURSIVE SkipWS(_, _)
\* The first position from i on that holds no white space.
SkipWS(s, i) == IF i <= Len(s) /\ IsSpace(s[i]) THEN SkipWS(s, i + 1) ELSE i

\* The value of a hexadecimal digit, -1 for another character.
HexVal(ch) ==
  IF IsDigit(ch) THEN Code[ch] - 48
  ELSE IF Code[ch] >= 97 /\ Code[ch] <= 102 THEN Code[ch] - 87
  ELSE IF Code[ch] >= 65 /\ Code[ch] <= 70 THEN Code[ch] - 55
  ELSE -1

\* The character with the code point n, "" for one outside Chars.
CharOf(n) ==
  CASE n >= FirstPrintable /\ n < FirstPrintable + Len(Ascii) -> Ascii[n - FirstPrintable + 1]
    [] n = 10 -> "\n"
    [] n = 9 -> "\t"
    [] n = 13 -> "\r"
    [] n = 65533 -> Replacement
    [] OTHER -> ""

\* The character a \uXXXX escape at s[i..i+3] names: "" when the four are not
\* hexadecimal digits or name a character outside Chars.
UnicodeAt(s, i) ==
  IF i + 3 > Len(s) \/ \E j \in i..(i + 3) : HexVal(s[j]) < 0 THEN ""
  ELSE CharOf(4096 * HexVal(s[i]) + 256 * HexVal(s[i + 1])
                + 16 * HexVal(s[i + 2]) + HexVal(s[i + 3]))

\* Unescape, taking the character after the backslash for the character named.
UnescapeLiteral(s, i, e) == e

\* The character an escape sequence names, whose second character e stands at
\* position i; "" when it names none.
Unescape(s, i, e) ==
  CASE e \in {"\"", "\\", "/"} -> e
    [] e = "n" -> "\n"
    [] e = "t" -> "\t"
    [] e = "r" -> "\r"
    [] e = "u" -> UnicodeAt(s, i + 1)
    [] OTHER -> ""

RECURSIVE ScanString(_, _, _)
\* An escape sequence read as the character ch, "" for none; the text goes on at position i.
ScanEscape(s, i, acc, ch) ==
  IF ch = "" THEN ParseFail ELSE ScanString(s, i, Append(acc, ch))

\* The string whose opening quote precedes position i; acc is what was read of it.
ScanString(s, i, acc) ==
  IF i > Len(s) THEN ParseFail
  ELSE IF s[i] = "\"" THEN ParseOk(JStr(acc), i + 1)
  ELSE IF s[i] = "\\" THEN
    IF i + 1 > Len(s) THEN ParseFail
    ELSE ScanEscape(s, IF s[i + 1] = "u" THEN i + 6 ELSE i + 2, acc,
                    Unescape(s, i + 1, s[i + 1]))
  ELSE IF Code[s[i]] < FirstPrintable THEN ParseFail
  ELSE ScanString(s, i + 1, Append(acc, IF s[i] = BadByte THEN Replacement ELSE s[i]))

RECURSIVE DigitsEnd(_, _)
\* The first position from i on that holds no digit.
DigitsEnd(s, i) == IF i <= Len(s) /\ IsDigit(s[i]) THEN DigitsEnd(s, i + 1) ELSE i

\* The position after the exponent that may start at c, 0 when one starts and has no digits.
ExponentEnd(s, c, d) ==
  IF d = c THEN c ELSE IF DigitsEnd(s, d) = d THEN 0 ELSE DigitsEnd(s, d)

\* The position after the fraction and the exponent that may start at b.
FractionEnd(s, b, c) ==
  IF Has(s, b, ".") /\ c = b + 1 THEN 0
  ELSE ExponentEnd(s, c,
         IF Has(s, c, "e") \/ Has(s, c, "E")
           THEN IF Has(s, c + 1, "+") \/ Has(s, c + 1, "-") THEN c + 2 ELSE c + 1
           ELSE c)

\* The position after the digits that start at a: one 0, or digits without a leading 0.
IntegerEnd(s, a, b) ==
  IF b = a THEN 0 ELSE FractionEnd(s, b, IF Has(s, b, ".") THEN DigitsEnd(s, b + 1) ELSE b)

\* The position after the JSON number that starts at i, 0 when there is none.
NumberEnd(s, i) ==
  IF Has(s, i, "-")
    THEN IntegerEnd(s, i + 1, IF Has(s, i + 1, "0") THEN i + 2 ELSE DigitsEnd(s, i + 1))
    ELSE IntegerEnd(s, i, IF Has(s, i, "0") THEN i + 1 ELSE DigitsEnd(s, i))

\* A number that ends before position e, 0 for none.
NumberAt(e) == IF e = 0 THEN ParseFail ELSE ParseOk(JAtom("num"), e)

\* Whether the word w stands at position i of s.
HasWord(s, i, w) == i + Len(w) - 1 <= Len(s) /\ \A j \in 1..Len(w) : s[i + j - 1] = w[j]

RECURSIVE ParseValue(_, _)
RECURSIVE ParseMembers(_, _, _)
RECURSIVE ParseElems(_, _, _)

\* After a member: a comma and more members, or the closing brace at position d.
MemberNext(s, d, all) ==
  IF Has(s, d, ",") THEN ParseMembers(s, d + 1, all)
  ELSE IF Has(s, d, "}") THEN ParseOk(JObj(all), d + 1)
  ELSE ParseFail

\* The member with the key k whose value was read as v.
MemberValue(s, k, v, acc) ==
  IF ~v.ok THEN ParseFail
  ELSE MemberNext(s, SkipWS(s, v.i), Append(acc, [k |-> k, v |-> v.v]))

\* The colon at position j and the value after it.
MemberColon(s, k, j, acc) ==
  IF ~Has(s, j, ":") THEN ParseFail ELSE MemberValue(s, k, ParseValue(s, j + 1), acc)

\* The member whose key was read as k.
MemberKey(s, k, acc) ==
  IF ~k.ok THEN ParseFail ELSE MemberColon(s, k.v.s, SkipWS(s, k.i), acc)

\* The member whose key starts at position j.
MemberAt(s, j, acc) ==
  IF ~Has(s, j, "\"") THEN ParseFail ELSE MemberKey(s, ScanString(s, j + 1, << >>), acc)

\* The members of an object from position i on, up to its closing brace.
ParseMembers(s, i, acc) == MemberAt(s, SkipWS(s, i), acc)

\* The object whose opening brace precedes position j (white space skipped).
ObjectAt(s, j) ==
  IF Has(s, j, "}") THEN ParseOk(JObj(<< >>), j + 1) ELSE ParseMembers(s, j, << >>)

\* After an element: a comma and more elements, or the closing bracket at position d.
ElemNext(s, d, all) ==
  IF Has(s, d, ",") THEN ParseElems(s, d + 1, all)
  ELSE IF Has(s, d, "]") THEN ParseOk(JArr(all), d + 1)
  ELSE ParseFail

\* The element that was read as v.
ElemValue(s, v, acc) ==
  IF ~v.ok THEN ParseFail ELSE ElemNext(s, SkipWS(s, v.i), Append(acc, v.v))

\* The elements of an array from position i on, up to its closing bracket.
ParseElems(s, i, acc) == ElemValue(s, ParseValue(s, i), acc)

\* The array whose opening bracket precedes position j (white space skipped).
ArrayAt(s, j) ==
  IF Has(s, j, "]") THEN ParseOk(JArr(<< >>), j + 1) ELSE ParseElems(s, j, << >>)

\* The JSON value that starts at position j.
ValueAt(s, j) ==
  IF j > Len(s) THEN ParseFail
  ELSE CASE s[j] = "\"" -> ScanString(s, j + 1, << >>)
         [] s[j] = "{" -> ObjectAt(s, SkipWS(s, j + 1))
         [] s[j] = "[" -> ArrayAt(s, SkipWS(s, j + 1))
         [] HasWord(s, j, <<"n", "u", "l", "l">>) -> ParseOk(JNull, j + 4)
         [] HasWord(s, j, <<"t", "r", "u", "e">>) -> ParseOk(JAtom("bool"), j + 4)
         [] HasWord(s, j, <<"f", "a", "l", "s", "e">>) -> ParseOk(JAtom("bool"), j + 5)
         [] s[j] = "-" \/ IsDigit(s[j]) -> NumberAt(NumberEnd(s, j))
         [] OTHER -> ParseFail

\* The JSON value that starts at or after position i (white space skipped).
ParseValue(s, i) == ValueAt(s, SkipWS(s, i))

\* The value r is the whole text when only white space follows it.
WholeText(s, r) == IF r.ok /\ SkipWS(s, r.i) = Len(s) + 1 THEN r ELSE ParseFail

\* The whole text as one JSON value.
Parse(s) == WholeText(s, ParseValue(s, 1))

\* A key folded to lower case, as the field match of encoding/json ignores case.
Fold(k) ==
  [i \in 1..Len(k) |->
     IF IsUpper(k[i]) THEN Ascii[Code[k[i]] + 32 - FirstPrintable + 1] ELSE k[i]]

DecodeOk(val) == [ok |-> TRUE, v |-> val]

DecodeErr(val) == [ok |-> FALSE, v |-> val]

\* A JSON value into a Go string that holds old.
DecodeString(j, old) ==
  CASE j.t = "str" -> DecodeOk(j.s)
    [] j.t = "null" -> DecodeOk(old)
    [] OTHER -> DecodeErr(old)

RECURSIVE DecodeEntries(_, _)
\* The entry of the key k decoded as e, then the other members.
EntryNext(k, e, rest, cur) ==
  IF ~e.ok THEN DecodeErr(cur) ELSE DecodeEntries(rest, (k :> e.v) @@ cur)

\* The members of a JSON object into the map entries cur, in order.
DecodeEntries(members, cur) ==
  IF Len(members) = 0 THEN DecodeOk(cur)
  ELSE EntryNext(members[1].k, DecodeString(members[1].v, << >>), Tail(members), cur)

\* The entries r as a map.
TagsOf(r) == [ok |-> r.ok, v |-> MakeMap(r.v)]

\* A JSON value into a map[string]string that holds old.
DecodeTags(j, old) ==
  CASE j.t = "null" -> DecodeOk(NilMap)
    [] j.t = "obj" -> TagsOf(DecodeEntries(j.a, old.m))
    [] OTHER -> DecodeErr(old)

\* The metric cur with one field decoded as x.
WithName(cur, x) == [ok |-> x.ok, v |-> [cur EXCEPT !.Name = x.v]]

WithType(cur, x) == [ok |-> x.ok, v |-> [cur EXCEPT !.Type = x.v]]

WithTags(cur, x) == [ok |-> x.ok, v |-> [cur EXCEPT !.Tags = x.v]]

WithValue(cur, x) == [ok |-> x.ok, v |-> [cur EXCEPT !.Value = x.v]]

\* The member with the folded key f and the value j into the metric cur.
DecodeMetricField(f, j, cur) ==
  CASE f = <<"n", "a", "m", "e">> -> WithName(cur, DecodeString(j, cur.Name))
    [] f = <<"t", "y", "p", "e">> -> WithType(cur, DecodeString(j, cur.Type))
    [] f = <<"t", "a", "g", "s">> -> WithTags(cur, DecodeTags(j, cur.Tags))
    [] f = <<"v", "a", "l", "u", "e">> -> WithValue(cur, DecodeString(j, cur.Value))
    [] OTHER -> DecodeOk(cur)

RECURSIVE DecodeMetricFields(_, _)
\* A member decoded as r, then the other members.
MetricFieldNext(r, rest) == IF ~r.ok THEN r ELSE DecodeMetricFields(rest, r.v)

\* The members of a JSON object into the metric cur, in order.
DecodeMetricFields(members, cur) ==
  IF Len(members) = 0 THEN DecodeOk(cur)
  ELSE MetricFieldNext(DecodeMetricField(Fold(members[1].k), members[1].v, cur),
                       Tail(members))

\* A JSON value into a metric that holds old.
DecodeMetric(j, old) ==
  CASE j.t = "obj" -> DecodeMetricFields(j.a, old)
    [] j.t = "null" -> DecodeOk(old)
    [] OTHER -> DecodeErr(old)

RECURSIVE DecodeElems(_, _, _, _)
\* The element i decoded as r, then the other elements.
ElemDecoded(r, elems, i, old, acc) ==
  IF ~r.ok THEN DecodeErr(acc) ELSE DecodeElems(elems, i + 1, old, Append(acc, r.v))

\* The elements of a JSON array from index i on into the slice elements old, acc
\* being the elements decoded so far.
DecodeElems(elems, i, old, acc) ==
  IF i > Len(elems) THEN DecodeOk(acc)
  ELSE ElemDecoded(DecodeMetric(elems[i], IF i <= Len(old) THEN old[i] ELSE ZeroMetric),
                   elems, i, old, acc)

\* The elements r as a slice.
SliceOf(r) == [ok |-> r.ok, v |-> MakeSlice(r.v)]

\* A JSON value into a []metric that holds old.
DecodeMetrics(j, old) ==
  CASE j.t = "null" -> DecodeOk(NilSlice)
    [] j.t = "arr" -> SliceOf(DecodeElems(j.a, 1, old.s, << >>))
    [] OTHER -> DecodeErr(old)

\* The metricFile cur with one field decoded as x.
WithFileName(cur, x) == [ok |-> x.ok, v |-> [cur EXCEPT !.FileName = x.v]]

WithMetrics(cur, x) == [ok |-> x.ok, v |-> [cur EXCEPT !.Metrics = x.v]]

\* The member with the folded key f and the value j into the metricFile cur.
DecodeFileField(f, j, cur) ==
  CASE f = <<"n", "a", "m", "e">> -> WithFileName(cur, DecodeString(j, cur.FileName))
    [] f = <<"m", "e", "t", "r", "i", "c", "s">> ->
         WithMetrics(cur, DecodeMetrics(j, cur.Metrics))
    [] OTHER -> DecodeOk(cur)

RECURSIVE DecodeFileFields(_, _)
\* A member decoded as r, then the other members.
FileFieldNext(r, rest) == IF ~r.ok THEN r ELSE DecodeFileFields(rest, r.v)

\* The members of a JSON object into the metricFile cur, in order.
DecodeFileFields(members, cur) ==
  IF Len(members) = 0 THEN DecodeOk(cur)
  ELSE FileFieldNext(DecodeFileField(Fold(members[1].k), members[1].v, cur), Tail(members))

\* A JSON value into a metricFile that holds old.
DecodeFile(j, old) ==
  CASE j.t = "obj" -> DecodeFileFields(j.a, old)
    [] j.t = "null" -> DecodeOk(old)
    [] OTHER -> DecodeErr(old)

\* The error (nil as FALSE) and the value of mf after decoding the JSON value p into it.
Decoded(p) == [err |-> ~p.ok, mf |-> p.v]

\* The text read as the JSON value p, into a zero metricFile.
Parsed(p) ==
  IF ~p.ok THEN [err |-> TRUE, mf |-> ZeroFile] ELSE Decoded(DecodeFile(p.v, ZeroFile))

\* var mf metricFile; err = json.Unmarshal(data, &mf): the error (nil as FALSE)
\* and the value of mf afterwards.
Unmarshal(data) == Parsed(Parse(data))

(***************************************************************************)
(* The system: the two handlers, each a sequence of steps that end at the  *)
(* calls that reach the object store or read the configuration, and the    *)
(* background reload of the configuration, which runs between any two.     *)
(***************************************************************************)
VARIABLES
  c,          \* the process-wide configuration (config.go: var c *config)
  store,      \* the object store: for each bucket, the objects by key
  mpc,        \* metricHandler: "idle", "put" (before PutObject) or "done"
  mreq,       \* metricHandler: the request it serves
  mf,         \* metricHandler: the decoded submission
  content,    \* metricHandler: the bytes to store
  mresp,      \* metricHandler: its response
  mstart,     \* history: the bucket configured when the ingest request started, "" before
  mbucket,    \* history: the bucket PutObject was called on, "" before
  ipc,        \* indexHandler: "idle", "read" (in the loop of readMetrics) or "done"
  files,      \* readMetrics: the listing
  next,       \* readMetrics: the position in files of the next file to read
  allMetrics, \* readMetrics: the result under construction
  ret,        \* readMetrics: what it returned, once it has
  iresp,      \* indexHandler: its response
  fetched,    \* history: the bucket and the bytes of each GetObject of this read
  listed,     \* history: the bucket the listing of this read was made on, "" before
  foreign,    \* the number of objects written by others than metricHandler
  dm,         \* data checks: the metric under test
  dmf,        \* data checks: the metricFile under test
  dop,        \* data checks: the operation applied, "" before
  dout        \* data checks: its result

sysvars ==
  <<c, store, mpc, mreq, mf, content, mresp, mstart, mbucket,
    ipc, files, next, allMetrics, ret, iresp, fetched, listed, foreign>>

datavars == <<dm, dmf, dop, dout>>

vars == <<sysvars, datavars>>

\* The bucket identifiers the configuration may name.
Buckets == {"bucket-1", "bucket-2"}

\* the file "a" with the metric up, no tags
\*   {"name":"a","metrics":[{"name":"up","type":"gauge","value":"1"}]}
BodyA1 ==
  <<"{", "\"", "n", "a", "m", "e", "\"", ":", "\"", "a", "\"", ",", "\"", "m", "e", "t",
     "r", "i", "c", "s", "\"", ":", "[", "{", "\"", "n", "a", "m", "e", "\"", ":", "\"",
     "u", "p", "\"", ",", "\"", "t", "y", "p", "e", "\"", ":", "\"", "g", "a", "u", "g",
     "e", "\"", ",", "\"", "v", "a", "l", "u", "e", "\"", ":", "\"", "1", "\"", "}", "]",
     "}">>

\* the file named b"< with the metric down, white space around
\*    {"name":"b\"<","metrics":[{"name":"down","type":"gauge","value":"0"}]} 
BodyB1 ==
  <<" ", "{", "\"", "n", "a", "m", "e", "\"", ":", "\"", "b", "\\", "\"", "<", "\"", ",",
     "\"", "m", "e", "t", "r", "i", "c", "s", "\"", ":", "[", "{", "\"", "n", "a", "m", "e",
     "\"", ":", "\"", "d", "o", "w", "n", "\"", ",", "\"", "t", "y", "p", "e", "\"", ":",
     "\"", "g", "a", "u", "g", "e", "\"", ",", "\"", "v", "a", "l", "u", "e", "\"", ":",
     "\"", "0", "\"", "}", "]", "}", " ">>

\* the file "a" again: other keys' case, an unknown key, two tags, two metrics
\*   {"NAME":"a","x":[1,null],"metrics":[{"name":"up","type":"gauge","tags":{"k":"v","h":"w"},"value":"5"},{"name":"n","type":"c","value":"2"}]}
BodyA2 ==
  <<"{", "\"", "N", "A", "M", "E", "\"", ":", "\"", "a", "\"", ",", "\"", "x", "\"", ":",
     "[", "1", ",", "n", "u", "l", "l", "]", ",", "\"", "m", "e", "t", "r", "i", "c", "s",
     "\"", ":", "[", "{", "\"", "n", "a", "m", "e", "\"", ":", "\"", "u", "p", "\"", ",",
     "\"", "t", "y", "p", "e", "\"", ":", "\"", "g", "a", "u", "g", "e", "\"", ",", "\"",
     "t", "a", "g", "s", "\"", ":", "{", "\"", "k", "\"", ":", "\"", "v", "\"", ",", "\"",
     "h", "\"", ":", "\"", "w", "\"", "}", ",", "\"", "v", "a", "l", "u", "e", "\"", ":",
     "\"", "5", "\"", "}", ",", "{", "\"", "n", "a", "m", "e", "\"", ":", "\"", "n", "\"",
     ",", "\"", "t", "y", "p", "e", "\"", ":", "\"", "c", "\"", ",", "\"", "v", "a", "l",
     "u", "e", "\"", ":", "\"", "2", "\"", "}", "]", "}">>


\* an empty name with an otherwise valid metric
\*   {"name":"","metrics":[{"name":"up","type":"gauge","value":"1"}]}
BodyNoName ==
  <<"{", "\"", "n", "a", "m", "e", "\"", ":", "\"", "\"", ",", "\"", "m", "e", "t", "r",
     "i", "c", "s", "\"", ":", "[", "{", "\"", "n", "a", "m", "e", "\"", ":", "\"", "u",
     "p", "\"", ",", "\"", "t", "y", "p", "e", "\"", ":", "\"", "g", "a", "u", "g", "e",
     "\"", ",", "\"", "v", "a", "l", "u", "e", "\"", ":", "\"", "1", "\"", "}", "]", "}">>

\* the value 1.5
\*   {"name":"a","metrics":[{"name":"up","type":"gauge","value":"1.5"}]}
BodyDecimal ==
  <<"{", "\"", "n", "a", "m", "e", "\"", ":", "\"", "a", "\"", ",", "\"", "m", "e", "t",
     "r", "i", "c", "s", "\"", ":", "[", "{", "\"", "n", "a", "m", "e", "\"", ":", "\"",
     "u", "p", "\"", ",", "\"", "t", "y", "p", "e", "\"", ":", "\"", "g", "a", "u", "g",
     "e", "\"", ",", "\"", "v", "a", "l", "u", "e", "\"", ":", "\"", "1", ".", "5", "\"",
     "}", "]", "}">>

\* a tag value with a space
\*   {"name":"b","metrics":[{"name":"up","type":"gauge","tags":{"k":"v w"},"value":"1"}]}
BodySpaceTag ==
  <<"{", "\"", "n", "a", "m", "e", "\"", ":", "\"", "b", "\"", ",", "\"", "m", "e", "t",
     "r", "i", "c", "s", "\"", ":", "[", "{", "\"", "n", "a", "m", "e", "\"", ":", "\"",
     "u", "p", "\"", ",", "\"", "t", "y", "p", "e", "\"", ":", "\"", "g", "a", "u", "g",
     "e", "\"", ",", "\"", "t", "a", "g", "s", "\"", ":", "{", "\"", "k", "\"", ":", "\"",
     "v", " ", "w", "\"", "}", ",", "\"", "v", "a", "l", "u", "e", "\"", ":", "\"", "1",
     "\"", "}", "]", "}">>

\* not JSON: the text ends early
\*   {"name":"a","metrics":[
BodyTruncated ==
  <<"{", "\"", "n", "a", "m", "e", "\"", ":", "\"", "a", "\"", ",", "\"", "m", "e", "t",
     "r", "i", "c", "s", "\"", ":", "[">>

\* JSON of the wrong type: metrics is a string
\*   {"name":"a","metrics":"up"}
BodyWrongType ==
  <<"{", "\"", "n", "a", "m", "e", "\"", ":", "\"", "a", "\"", ",", "\"", "m", "e", "t",
     "r", "i", "c", "s", "\"", ":", "\"", "u", "p", "\"", "}">>

Bodies ==
  {BodyA1, BodyB1, BodyA2, BodyNoName, BodyDecimal, BodySpaceTag,
   BodyTruncated, BodyWrongType}

\* What req.DecodedBody() gives: an error (a body that is not the base64 it
\* claims to be) or the text of the body.
Requests ==
  {[err |-> TRUE, body |-> << >>]} \cup {[err |-> FALSE, body |-> b] : b \in Bodies}

NoRequest == [err |-> FALSE, body |-> << >>]

\* events.Fail(msg) and events.Succeed(body)
Fail(msg) == [ok |-> FALSE, msg |-> msg, body |-> << >>]

Succeed(body) == [ok |-> TRUE, msg |-> "", body |-> body]

NoResponse == [ok |-> FALSE, msg |-> "no response yet", body |-> << >>]

\* "__all__"
AllName == <<"_", "_", "a", "l", "l", "_", "_">>

NoReturn == [mf |-> ZeroFile, err |-> "not returned"]

SysInit ==
  /\ c \in [MetricBucket : Buckets]
  /\ store = [b \in Buckets |-> << >>]
  /\ mpc = "idle" /\ mreq = NoRequest /\ mf = ZeroFile /\ content = << >>
  /\ mresp = NoResponse /\ mstart = "" /\ mbucket = ""
  /\ ipc = "idle" /\ files = << >> /\ next = 1 /\ allMetrics = ZeroFile
  /\ ret = NoReturn /\ iresp = NoResponse /\ fetched = << >> /\ listed = ""
  /\ foreign = 0

DataIdle == dm = ZeroMetric /\ dmf = ZeroFile /\ dop = "" /\ dout = << >>

Init == SysInit /\ DataIdle

(***************************************************************************)
(* config.go: the configuration is loaded at start and Autoreload(60)      *)
(* loads it again every 60 seconds, in the background, into c.             *)
(***************************************************************************)
Reloaded(cfg, b) == [cfg EXCEPT !.MetricBucket = b]

Reload ==
  /\ \E b \in Buckets \ {c.MetricBucket} : c' = Reloaded(c, b)
  /\ UNCHANGED <<store, mpc, mreq, mf, content, mresp, mstart, mbucket,
                 ipc, files, next, allMetrics, ret, iresp, fetched, listed, foreign>>
  /\ UNCHANGED datavars

(***************************************************************************)
(* metricHandler (router.go:110-145).  The dispatcher started in main      *)
(* hands the process one request at a time: a handler starts when neither  *)
(* is at work.  The reload runs in the background, between any two steps.  *)
(***************************************************************************)
\* Prepared, without the validation.
PreparedUnvalidated(u, clientOk) ==
  IF u.err THEN [resp |-> Fail("failed to unmarshal"), mf |-> u.mf, content |-> << >>]
  ELSE IF ~clientOk
    THEN [resp |-> Fail("failed to load client"), mf |-> u.mf, content |-> Marshal(u.mf)]
  ELSE [resp |-> NoResponse, mf |-> u.mf, content |-> Marshal(u.mf)]

\* Lines 122-134: the submission decoded as u is validated and encoded, and
\* the client is made.
Prepared(u, clientOk) ==
  IF u.err THEN [resp |-> Fail("failed to unmarshal"), mf |-> u.mf, content |-> << >>]
  ELSE IF ~FileValidate(u.mf)
    THEN [resp |-> Fail("failed validation"), mf |-> u.mf, content |-> << >>]
  ELSE IF ~clientOk
    THEN [resp |-> Fail("failed to load client"), mf |-> u.mf, content |-> Marshal(u.mf)]
  ELSE [resp |-> NoResponse, mf |-> u.mf, content |-> Marshal(u.mf)]

\* Lines 111-134, up to the call of PutObject: the response that ends the
\* request there, or the file and the bytes to store.
Prepare(req, clientOk) ==
  IF req.err THEN [resp |-> Fail("failed to decode"), mf |-> ZeroFile, content |-> << >>]
  ELSE Prepared(Unmarshal(req.body), clientOk)

\* metricHandler takes the request req and comes to p.
MetricStarts(req, p) ==
  /\ mreq' = req
  /\ mf' = p.mf
  /\ content' = p.content
  /\ mresp' = p.resp
  /\ mpc' = IF p.resp = NoResponse THEN "put" ELSE "done"

MetricStart ==
  /\ mpc = "idle" /\ ipc = "idle"
  /\ \E req \in Requests, clientOk \in BOOLEAN : MetricStarts(req, Prepare(req, clientOk))
  /\ mstart' = c.MetricBucket
  /\ UNCHANGED <<c, store, mbucket, ipc, files, next, allMetrics, ret, iresp,
                 fetched, listed, foreign>>
  /\ UNCHANGED datavars

\* PutObject(Bucket, Key, Body) on the store st: the object under the key is
\* written, replacing the one that was there.
PutObject(st, bucket, key, body) ==
  [st EXCEPT ![bucket] = (key :> body) @@ st[bucket]]

\* PutKey, one key for every file.
PutKeyFixed(file) == <<"m", "e", "t", "r", "i", "c", "s">>

\* The key metricHandler stores the file under (line 138).
PutKey(file) == file.FileName

\* Lines 136-144.
MetricPut ==
  /\ mpc = "put"
  /\ mbucket' = c.MetricBucket
  /\ \E ok \in BOOLEAN :
       IF ok
         THEN /\ store' = PutObject(store, c.MetricBucket, PutKey(mf), content)
              /\ mresp' = Succeed(<< >>)
         ELSE /\ store' = store
              /\ mresp' = Fail("failed to write")
  /\ mpc' = "done"
  /\ UNCHANGED <<c, mreq, mf, content, mstart, ipc, files, next, allMetrics, ret,
                 iresp, fetched, listed, foreign>>
  /\ UNCHANGED datavars

\* The response is returned; the handler is ready for the next request.
MetricReturn ==
  /\ mpc = "done"
  /\ mpc' = "idle" /\ mreq' = NoRequest /\ mf' = ZeroFile /\ content' = << >>
  /\ mresp' = NoResponse /\ mstart' = "" /\ mbucket' = ""
  /\ UNCHANGED <<c, store, ipc, files, next, allMetrics, ret, iresp, fetched,
                 listed, foreign>>
  /\ UNCHANGED datavars

(***************************************************************************)
(* indexHandler, readMetrics, readMetricFile, listMetricFiles              *)
(* (router.go:147-232).                                                    *)
(***************************************************************************)
\* The listings a bucket holding the keys K may give: the store decides the order.
Listings(K) == KeyOrders(K)

\* Lines 203-212: the object read as u is validated.
Validated(u) ==
  IF u.err THEN [mf |-> ZeroFile, err |-> "decode"]
  ELSE IF ~FileValidate(u.mf) THEN [mf |-> ZeroFile, err |-> "validation"]
  ELSE [mf |-> u.mf, err |-> "nil"]

\* Whether GetObject(bucket, f) gives an object: the key is there and, with
\* getOk, the call does not fail for a reason of its own.
Found(st, bucket, f, getOk) == getOk /\ f \in DOMAIN st[bucket]

\* readMetricFile(client, f) when GetObject is called on bucket: the file and the error.
ReadMetricFile(st, bucket, f, getOk) ==
  IF ~Found(st, bucket, f, getOk) THEN [mf |-> ZeroFile, err |-> "store"]
  ELSE Validated(Unmarshal(st[bucket][f]))

\* Accumulate, the file's metrics put before those already gathered.
AccumulateInFront(all, file) == [all EXCEPT !.Metrics = Append_(file.Metrics, all.Metrics)]

\* Line 182: allMetrics.Metrics = append(allMetrics.Metrics, mf.Metrics...)
Accumulate(all, file) == [all EXCEPT !.Metrics = Append_(all.Metrics, file.Metrics)]

\* Abort, returning the result under construction with the error.
AbortPartial(all, err) == [mf |-> all, err |-> err]

\* What readMetrics returns when a step of it fails (lines 173, 180), all being
\* the result under construction.
Abort(all, err) == [mf |-> ZeroFile, err |-> err]

\* What readMetrics returns after the loop (line 184).
Complete(all) == [mf |-> all, err |-> "nil"]

\* indexHandler's response to what readMetrics returned (lines 153-158).
IndexResponses(r) ==
  IF r.err # "nil" THEN {Fail("failed to read metrics")}
  ELSE {Succeed(text) : text \in FileStrings(r.mf)}

\* readMetrics returns r and indexHandler answers.
IndexEnds(r) ==
  /\ ret' = r
  /\ iresp' \in IndexResponses(r)
  /\ ipc' = "done"

\* Line 176
EmptyAll == [FileName |-> AllName, Metrics |-> NilSlice]

\* Lines 148-176: the client, the listing, and the empty result.
IndexStart ==
  /\ ipc = "idle" /\ mpc = "idle"
  /\ \E clientOk \in BOOLEAN, listOk \in BOOLEAN, l \in Listings(DOMAIN store[c.MetricBucket]) :
       IF ~clientOk
         THEN /\ iresp' = Fail("failed to load client")
              /\ ipc' = "done"
              /\ UNCHANGED <<files, allMetrics, ret, listed>>
       ELSE IF ~listOk
         THEN /\ IndexEnds(Abort(ZeroFile, "store"))
              /\ listed' = c.MetricBucket
              /\ UNCHANGED <<files, allMetrics>>
       ELSE /\ files' = l
            /\ listed' = c.MetricBucket
            /\ allMetrics' = EmptyAll
            /\ IF Len(l) = 0
                 THEN IndexEnds(Complete(EmptyAll))
                 ELSE ipc' = "read" /\ UNCHANGED <<ret, iresp>>
  /\ UNCHANGED <<c, store, mpc, mreq, mf, content, mresp, mstart, mbucket, next,
                 fetched, foreign>>
  /\ UNCHANGED datavars

\* What GetObject(bucket, f) gave.
Got(st, bucket, f, found) ==
  [bucket |-> bucket, key |-> f, found |-> found,
   data |-> IF found THEN st[bucket][f] ELSE << >>]

\* readMetricFile returned r: lines 179-184.
IndexReads(r) ==
  IF r.err # "nil"
    THEN /\ IndexEnds(Abort(allMetrics, r.err))
         /\ UNCHANGED <<allMetrics, next>>
    ELSE /\ allMetrics' = Accumulate(allMetrics, r.mf)
         /\ next' = next + 1
         /\ IF next = Len(files)
              THEN IndexEnds(Complete(Accumulate(allMetrics, r.mf)))
              ELSE UNCHANGED <<ipc, ret, iresp>>

\* One turn of the loop of readMetrics (lines 177-183), and its return after
\* the last one.
IndexRead ==
  /\ ipc = "read"
  /\ \E getOk \in BOOLEAN :
       /\ fetched' = Append(fetched, Got(store, c.MetricBucket, files[next],
                                         Found(store, c.MetricBucket, files[next], getOk)))
       /\ IndexReads(ReadMetricFile(store, c.MetricBucket, files[next], getOk))
  /\ UNCHANGED <<c, store, mpc, mreq, mf, content, mresp, mstart, mbucket, files,
                 listed, foreign>>
  /\ UNCHANGED datavars

\* The response is returned; the handler is ready for the next request.
IndexReturn ==
  /\ ipc = "done"
  /\ ipc' = "idle" /\ files' = << >> /\ next' = 1 /\ allMetrics' = ZeroFile
  /\ ret' = NoReturn /\ iresp' = NoResponse /\ fetched' = << >> /\ listed' = ""
  /\ UNCHANGED <<c, store, mpc, mreq, mf, content, mresp, mstart, mbucket, foreign>>
  /\ UNCHANGED datavars

Next == Reload \/ MetricStart \/ MetricPut \/ MetricReturn
          \/ IndexStart \/ IndexRead \/ IndexReturn

\* The service with a store that only metricHandler writes.
Spec == Init /\ [][Next]_vars

(***************************************************************************)
(* The read path over a store that others write, at any time and with any  *)
(* bytes.                                                                  *)
(***************************************************************************)
\* The most objects the others write.
MaxForeign == 2

\* {"name":"e"}: a file with no metrics
BodyNoMetrics == <<"{", "\"", "n", "a", "m", "e", "\"", ":", "\"", "e", "\"", "}">>

ForeignKeys == {<<"a">>, <<"b">>}

ForeignData == {BodyA1, BodyA2, BodyNoMetrics, BodyTruncated, BodyWrongType, BodyDecimal}

ForeignPut ==
  /\ foreign < MaxForeign
  /\ foreign' = foreign + 1
  /\ \E b \in Buckets, k \in ForeignKeys, data \in ForeignData :
       store' = PutObject(store, b, k, data)
  /\ UNCHANGED <<c, mpc, mreq, mf, content, mresp, mstart, mbucket,
                 ipc, files, next, allMetrics, ret, iresp, fetched, listed>>
  /\ UNCHANGED datavars

NextOpen == ForeignPut \/ Reload \/ IndexStart \/ IndexRead \/ IndexReturn

SpecOpen == Init /\ [][NextOpen]_vars

(***************************************************************************)
(* The data model on its own: a metric or a metricFile is drawn from a     *)
(* bounded set and Validate, String or the JSON round trip of              *)
(* metricHandler and readMetricFile (Marshal, then Unmarshal) is applied.  *)
(* The strings hold no BadByte: every metricFile of the program is made by *)
(* json.Unmarshal, which leaves none.                                      *)
(***************************************************************************)
\* The longest name, type, tag key and tag value drawn.
MaxStrLen == 2

\* The longest value drawn.
MaxValueLen == 3

\* The most metrics in a file drawn.
MaxMetrics == 2

SampleChars ==
  {"a", "Z", "7", "_", "-", "/", " ", "\"", "{", "}", ".", "+", "\n", Replacement}

ValueChars == {"5", "1", ".", "+", "a", "\n"}

\* The strings over S of length n at most.
StringsUpTo(S, n) == UNION {[1..k -> S] : k \in 0..n}

BaseMetric ==
  [Name |-> <<"u", "p">>, Type |-> <<"g", "a", "u", "g", "e">>, Tags |-> NilMap,
   Value |-> <<"5">>]

OneTag(k, v) == MakeMap(k :> v)

TwoTags(k, v, h, w) == MakeMap((k :> v) @@ (h :> w))

TagTexts == {<<"k">>, <<"a", " ", "b">>, << >>, <<"q", "\"">>}

TagSamples ==
  {NilMap, MakeMap(<< >>)}
    \cup {OneTag(k, v) : k \in TagTexts, v \in TagTexts}
    \cup {TwoTags(<<"k">>, <<"v">>, <<"h">>, <<"w">>),
          TwoTags(<<"k">>, <<"v">>, <<"a", " ", "b">>, <<"w">>),
          TwoTags(<<"k">>, <<"v">>, <<"h">>, <<"{">>)}

TestMetrics ==
  {[Name |-> n, Type |-> t, Tags |-> g, Value |-> v] :
      n \in {<<"u", "p">>, <<"u", " ", "p">>, << >>},
      t \in {<<"g", "a", "u", "g", "e">>, << >>, <<"g", "}">>},
      g \in TagSamples,
      v \in {<<"5">>, <<"1", ".", "5">>, << >>, <<"5", "5", "+">>}}
    \cup {[BaseMetric EXCEPT !.Name = x] : x \in StringsUpTo(SampleChars, MaxStrLen)}
    \cup {[BaseMetric EXCEPT !.Type = x] : x \in StringsUpTo(SampleChars, MaxStrLen)}
    \cup {[BaseMetric EXCEPT !.Value = x] : x \in StringsUpTo(ValueChars, MaxValueLen)}
    \cup {[BaseMetric EXCEPT !.Tags = OneTag(x, <<"v">>)] :
            x \in StringsUpTo(SampleChars, MaxStrLen)}
    \cup {[BaseMetric EXCEPT !.Tags = OneTag(<<"k">>, x)] :
            x \in StringsUpTo(SampleChars, MaxStrLen)}

FileMetrics ==
  {BaseMetric,
   ZeroMetric,
   [BaseMetric EXCEPT !.Tags = MakeMap(<< >>)],
   [BaseMetric EXCEPT !.Tags = OneTag(<<"k">>, <<"v">>)],
   [BaseMetric EXCEPT !.Name = <<"d", "n">>,
                      !.Tags = TwoTags(<<"k">>, <<"v">>, <<"h">>, <<"w">>)],
   [BaseMetric EXCEPT !.Value = <<"1", ".", "5">>],
   [BaseMetric EXCEPT !.Name = <<"u", " ", "p">>,
                      !.Tags = OneTag(<<"<", "\\">>, <<"\n", Replacement, "\"">>)]}

FileNames == {<< >>, <<"a">>, <<"a", " ", "b">>, <<"q", "\"", "<">>}

TestFiles ==
  {[FileName |-> n, Metrics |-> ms] :
      n \in FileNames,
      ms \in {NilSlice} \cup {MakeSlice(q) : q \in StringsUpTo(FileMetrics, MaxMetrics)}}

InitData ==
  /\ SysInit
  /\ c.MetricBucket = "bucket-1"
  /\ dout = << >>
  /\ \/ dop = "metric" /\ dm \in TestMetrics /\ dmf = ZeroFile
     \/ dop = "file" /\ dm = ZeroMetric /\ dmf \in TestFiles

DoMetricValidate ==
  /\ dop = "metric"
  /\ dop' = "metric.Validate"
  /\ dout' = MetricValidate(dm)
  /\ UNCHANGED <<dm, dmf>>
  /\ UNCHANGED sysvars

DoMetricString ==
  /\ dop = "metric"
  /\ dop' = "metric.String"
  /\ dout' \in MetricStrings(dm)
  /\ UNCHANGED <<dm, dmf>>
  /\ UNCHANGED sysvars

DoFileValidate ==
  /\ dop = "file"
  /\ dop' = "metricFile.Validate"
  /\ dout' = FileValidate(dmf)
  /\ UNCHANGED <<dm, dmf>>
  /\ UNCHANGED sysvars

DoFileString ==
  /\ dop = "file"
  /\ dop' = "metricFile.String"
  /\ dout' \in FileStrings(dmf)
  /\ UNCHANGED <<dm, dmf>>
  /\ UNCHANGED sysvars

\* The file read back as u, and one rendering of the file and of u.
RoundTrips(file, u) ==
  {[back |-> u, before |-> x, after |-> y] : x \in FileStrings(file), y \in FileStrings(u.mf)}

\* json.Marshal (line 126), then json.Unmarshal (line 204).
RoundTrip(file) == Unmarshal(Marshal(file))

DoRoundTrip ==
  /\ dop = "file"
  /\ dop' = "round trip"
  /\ dout' \in RoundTrips(dmf, RoundTrip(dmf))
  /\ UNCHANGED <<dm, dmf>>
  /\ UNCHANGED sysvars

NextData == DoMetricValidate \/ DoMetricString \/ DoFileValidate \/ DoFileString
              \/ DoRoundTrip

SpecData == InitData /\ [][NextData]_vars

(***************************************************************************)
(* The claims.                                                             *)
(***************************************************************************)
\* Whether the decoding u gave no error and a file that passes Validate.
ValidObject(u) == ~u.err /\ FileValidate(u.mf)

\* Whether the object GetObject gave, g, fails to fetch, to decode or to validate.
ObjectFails(g) == ~g.found \/ ~ValidObject(Unmarshal(g.data))

Returned == ret.err # "not returned"

\* C1: readMetrics is whole-or-nothing.  When it returns an error the
\* MetricFile it returns is empty (no name, no metrics), whatever was gathered
\* from the objects read before; and when the fetch, the decode or the
\* validation of an object it read failed, it has returned an error and
\* indexHandler has answered with a failure.
C1_WholeOrNothing ==
  /\ (Returned /\ ret.err # "nil") =>
        /\ ret.mf.FileName = << >>
        /\ ret.mf.Metrics.s = << >>
        /\ ~iresp.ok
  /\ (\E i \in 1..Len(fetched) : ObjectFails(fetched[i])) => (Returned /\ ret.err # "nil")

\* C1 happens: the second object read fails to decode after the first gave metrics.
C1_Witness ==
  /\ ret.err = "decode"
  /\ Len(fetched) = 2
  /\ Len(allMetrics.Metrics.s) >= 1
  /\ ret.mf = ZeroFile

RECURSIVE FetchedMetrics(_)
\* The metrics of the objects gs as they decode, one file after the other.
FetchedMetrics(gs) ==
  IF Len(gs) = 0 THEN << >>
  ELSE Unmarshal(gs[1].data).mf.Metrics.s \o FetchedMetrics(Tail(gs))

RECURSIVE FetchedCount(_)
\* The number of metrics in the objects gs.
FetchedCount(gs) ==
  IF Len(gs) = 0 THEN 0
  ELSE Len(Unmarshal(gs[1].data).mf.Metrics.s) + FetchedCount(Tail(gs))

\* C2: when readMetrics returns without error, every listed object was
\* fetched, in listing order, decoded and validated, and the result is named
\* __all__ and holds exactly the metrics of the fetched files, file after file
\* in listing order and in each file's own order; its length is the sum of the
\* files' lengths.
C2_Concatenation ==
  (Returned /\ ret.err = "nil") =>
     /\ ret.mf.FileName = <<"_", "_", "a", "l", "l", "_", "_">>
     /\ Len(fetched) = Len(files)
     /\ \A i \in 1..Len(files) : fetched[i].key = files[i] /\ ~ObjectFails(fetched[i])
     /\ ret.mf.Metrics.s = FetchedMetrics(fetched)
     /\ Len(ret.mf.Metrics.s) = FetchedCount(fetched)

\* C2 happens: b is listed before a, b holds one metric and a two.
C2_Witness ==
  /\ ret.err = "nil"
  /\ files = << <<"b">>, <<"a">> >>
  /\ Len(Unmarshal(fetched[1].data).mf.Metrics.s) = 1
  /\ Len(Unmarshal(fetched[2].data).mf.Metrics.s) = 2
  /\ Len(ret.mf.Metrics.s) = 3

\* Whether the request req decodes to a file that passes Validate.
ValidSubmission(req) == ~req.err /\ ValidObject(Unmarshal(req.body))

\* C3: metricHandler comes to PutObject only with a submission that decoded
\* and passed Validate; one that fails to decode or to validate is answered
\* with a failure and PutObject is never called for it, so the store is as it
\* was.
C3_ValidateBeforePut ==
  /\ (mpc = "put" \/ mbucket # "") => ValidSubmission(mreq)
  /\ (mpc = "done" /\ ~ValidSubmission(mreq)) =>
        /\ ~mresp.ok
        /\ mresp.msg \in {"failed to decode", "failed to unmarshal", "failed validation"}
        /\ mbucket = ""

\* C3 happens: the submission with an empty name and a valid metric is refused.
C3_Witness ==
  /\ mpc = "done"
  /\ mreq.body = BodyNoName
  /\ Unmarshal(mreq.body).mf.FileName = << >>
  /\ FileValidate([Unmarshal(mreq.body).mf EXCEPT !.FileName = <<"a">>])
  /\ mresp = Fail("failed validation")

\* C4: a successful ingest writes one object, under the key that is the file's
\* name, in one bucket: afterwards that key holds the file just ingested,
\* whether or not the key held an object before, and every other key of every
\* bucket holds what it held; and nothing else changes the store.
C4_PutOverwrites ==
  [][ /\ (mpc = "put" /\ mresp'.ok) =>
           \E b \in Buckets :
              /\ DOMAIN store'[b] = DOMAIN store[b] \cup {mf.FileName}
              /\ ~Unmarshal(store'[b][mf.FileName]).err
              /\ Unmarshal(store'[b][mf.FileName]).mf = mf
              /\ \A k \in DOMAIN store[b] \ {mf.FileName} : store'[b][k] = store[b][k]
              /\ \A o \in Buckets \ {b} : store'[o] = store[o]
      /\ (store' # store) => (mpc = "put" /\ mresp'.ok)
    ]_vars

\* C4 happens: the second file named a has been ingested into a bucket that
\* holds another file too.
C4_Witness ==
  /\ mpc = "done" /\ mresp.ok
  /\ mreq.body = BodyA2
  /\ DOMAIN store[mbucket] = {<<"a">>, <<"b", "\"", "<">>}
  /\ Unmarshal(store[mbucket][<<"a">>]).mf = mf

\* Whether the decoding u gave a file that passes Validate and is named k.
ValidUnder(k, u) == ~u.err /\ FileValidate(u.mf) /\ u.mf.FileName = k

C10_OneBucketPerRequest ==
  /\ \A i \in 1..Len(fetched) : fetched[i].bucket = listed
  /\ (mbucket # "") => (mbucket = mstart)

Letters ==
  {"a", "b", "c", "d", "e", "f", "g", "h", "i", "j", "k", "l", "m", "n", "o", "p", "q",
   "r", "s", "t", "u", "v", "w", "x", "y", "z",
   "A", "B", "C", "D", "E", "F", "G", "H", "I", "J", "K", "L", "M", "N", "O", "P", "Q",
   "R", "S", "T", "U", "V", "W", "X", "Y", "Z"}

Digits == {"0", "1", "2", "3", "4", "5", "6", "7", "8", "9"}

\* s matches [\w\-/]+ over the whole string.
TextOK(s) == s # << >> /\ \A i \in 1..Len(s) : s[i] \in Letters \cup Digits \cup {"_", "-", "/"}

AllDigits(s) == s # << >> /\ \A i \in 1..Len(s) : s[i] \in Digits

\* s matches ^\d+(.\+)?$ : digits, or digits, one character that is no newline, and a +.
ValueOK(s) ==
  \/ AllDigits(s)
  \/ /\ Len(s) >= 3
     /\ s[Len(s)] = "+"
     /\ s[Len(s) - 1] # "\n"
     /\ AllDigits(SubSeq(s, 1, Len(s) - 2))

\* s is empty or holds a space, a quote or a brace.
Unfit(s) == s = << >> \/ \E i \in 1..Len(s) : s[i] \in {" ", "\"", "{", "}"}

TagsOK(m) == \A k \in DOMAIN m.Tags.m : TextOK(k) /\ TextOK(m.Tags.m[k])

MetricOK(m) == TextOK(m.Name) /\ TextOK(m.Type) /\ ValueOK(m.Value) /\ TagsOK(m)

\* C5: metric.Validate is true exactly when name and type match the text
\* pattern, value matches the value pattern and every tag key and value matches
\* the text pattern.  It is false for a name, a tag key or a tag value that is
\* empty or holds a space, a quote or a brace; 1.5 is rejected as a value and 5
\* is accepted; a metric without tags is judged on name, type and value alone.
C5_MetricValidate ==
  (dop = "metric.Validate") =>
     /\ dout = MetricOK(dm)
     /\ (Unfit(dm.Name) \/ \E k \in DOMAIN dm.Tags.m : Unfit(k) \/ Unfit(dm.Tags.m[k]))
           => (dout = FALSE)
     /\ (dm.Value = <<"1", ".", "5">>) => (dout = FALSE)
     /\ (dm.Value = <<"5">> /\ TextOK(dm.Name) /\ TextOK(dm.Type) /\ TagsOK(dm))
           => (dout = TRUE)
     /\ (DOMAIN dm.Tags.m = {})
           => (dout = (TextOK(dm.Name) /\ TextOK(dm.Type) /\ ValueOK(dm.Value)))

\* C5 happens: a metric that is valid but for its value 1.5 is rejected.
C5_Witness ==
  /\ dop = "metric.Validate"
  /\ dm.Value = <<"1", ".", "5">>
  /\ TextOK(dm.Name) /\ TextOK(dm.Type) /\ DOMAIN dm.Tags.m = {}
  /\ dout = FALSE

\* C6: metricFile.Validate is false exactly when the file name is empty or a
\* metric of the file fails metric.Validate; a file with a name and no metrics
\* is valid, and the name is not held to the text pattern.
C6_FileValidate ==
  (dop = "metricFile.Validate") =>
     /\ (dout = FALSE) <=>
           (dmf.FileName = << >>
              \/ \E i \in 1..Len(dmf.Metrics.s) : ~MetricOK(dmf.Metrics.s[i]))
     /\ (dmf.FileName # << >> /\ Len(dmf.Metrics.s) = 0) => (dout = TRUE)

\* C6 happens: a file named "a b", with no metrics, is valid.
C6_Witness ==
  /\ dop = "metricFile.Validate"
  /\ dmf.FileName = <<"a", " ", "b">>
  /\ ~TextOK(dmf.FileName)
  /\ Len(dmf.Metrics.s) = 0
  /\ dout = TRUE

RECURSIVE TagList(_, _)
\* The entries k="v" of the tags t for the keys o, in that order, commas between.
TagList(o, t) ==
  IF Len(o) = 0 THEN << >>
  ELSE o[1] \o <<"=", "\"">> \o t[o[1]] \o <<"\"">>
         \o (IF Len(o) = 1 THEN << >> ELSE <<",">> \o TagList(Tail(o), t))

\* The tag blocks of a metric: nothing without tags, else the braces around
\* one entry for each tag, in some order.
TagBlocks(m) ==
  IF DOMAIN m.Tags.m = {} THEN {<< >>}
  ELSE {<<"{">> \o TagList(o, m.Tags.m) \o <<"}">> :
          o \in {p \in [1..Cardinality(DOMAIN m.Tags.m) -> DOMAIN m.Tags.m] :
                   \A k \in DOMAIN m.Tags.m : \E i \in DOMAIN p : p[i] = k}}

\* The stanzas of a metric: the TYPE line, the sample line and a blank line.
Stanzas(m) ==
  {<<"#", " ", "T", "Y", "P", "E", " ">> \o m.Name \o <<" ">> \o m.Type \o <<"\n">>
     \o m.Name \o tb \o <<" ">> \o m.Value \o <<"\n">>
     \o <<"\n">> : tb \in TagBlocks(m)}

RECURSIVE Texts(_)
\* The texts that are one stanza for each metric of q, in the order of q.
Texts(q) ==
  IF Len(q) = 0 THEN {<< >>}
  ELSE {x \o y : x \in Stanzas(q[1]), y \in Texts(Tail(q))}

\* C7: the rendering of a MetricFile is one stanza for each metric, in sequence
\* order, and the empty text for no metrics; a stanza is the line # TYPE name
\* type, the line name, tag block, space, value, and a blank line; the tag block
\* is absent without tags and else the braces around one k="v" for each tag,
\* commas between.  The rendering of one metric is its stanza.
C7_Rendering ==
  /\ (dop = "metricFile.String") =>
        /\ dout \in Texts(dmf.Metrics.s)
        /\ (Len(dmf.Metrics.s) = 0) => (dout = << >>)
  /\ (dop = "metric.String") => (dout \in Stanzas(dm))

\* C7 happens: a file of a metric without tags and a metric with two tags is rendered.
C7_Witness ==
  /\ dop = "metricFile.String"
  /\ Len(dmf.Metrics.s) = 2
  /\ MapLen(dmf.Metrics.s[1].Tags) = 0
  /\ MapLen(dmf.Metrics.s[2].Tags) = 2
  /\ Len(dout) > 0

\* Whether the metrics a and b agree in name, type, tags and value.
SameMetric(a, b) ==
  a.Name = b.Name /\ a.Type = b.Type /\ a.Value = b.Value /\ a.Tags.m = b.Tags.m

\* C8, as amended: encoding a MetricFile and decoding it again gives, without
\* error, a file of the same name with the same metrics (name, type, tags,
\* value) in the same order; the text rendered from it is one of the texts the
\* original renders to, and is identical to the original's rendered text when no
\* metric has more than one tag.
C8_RoundTrip ==
  (dop = "round trip") =>
     /\ ~dout.back.err
     /\ dout.back.mf.FileName = dmf.FileName
     /\ Len(dout.back.mf.Metrics.s) = Len(dmf.Metrics.s)
     /\ \A i \in 1..Len(dmf.Metrics.s) : SameMetric(dout.back.mf.Metrics.s[i], dmf.Metrics.s[i])
     /\ dout.after \in Texts(dmf.Metrics.s)
     /\ (\A i \in 1..Len(dmf.Metrics.s) : MapLen(dmf.Metrics.s[i].Tags) <= 1)
           => (dout.before = dout.after)

\* C8 happens: a file whose name and tag need escapes went through the round trip.
C8_Witness ==
  /\ dop = "round trip"
  /\ dmf.FileName = <<"q", "\"", "<">>
  /\ Len(dmf.Metrics.s) = 2
  /\ \E i \in 1..2 : <<"<", "\\">> \in DOMAIN dmf.Metrics.s[i].Tags.m
  /\ dout.before = dout.after

\* C8 as stated: the text rendered after the round trip is identical to the
\* text rendered from the original.
C8_IdenticalText == (dop = "round trip") => (dout.before = dout.after)

====
